---- MODULE Spec2Model ----
(***************************************************************************)
(* Model of sfm_driver.py: SfMConverter.run and SfMConverter._extract_frames. *)
(* One run is a straight-line program with three filesystem operations      *)
(* (Path.mkdir), one PATH lookup (shutil.which), one blocking subprocess    *)
(* (ffmpeg) and one blocking call into an external pipeline.  The model     *)
(* keeps the position of the run, the filesystem entries the run touches,   *)
(* and a record of every external call with its arguments.                  *)
(***************************************************************************)
EXTENDS Integers, Sequences, FiniteSets, TLC

VARIABLES
    self,          \* the SfMConverter dataclass instance (its fields)
    dataKind,      \* what the filesystem holds at self.data
    ffmpegOnPath,  \* whether shutil.which("ffmpeg") finds a binary
    fs,            \* kind of filesystem entry at output_dir, output_dir/images, output_dir/sparse
    pc,            \* position of the current run
    image_dir,     \* local variable image_dir of run (NoPath while unassigned)
    err,           \* exception that ended the run ("none" while running or done)
    errAt,         \* position at which that exception was raised
    extractCalls,  \* number of calls of _extract_frames in this run
    subprocs,      \* commands handed to subprocess.run in this run
    ffmpegStatus,  \* "none", "running", "ok" or "failed"
    calls,         \* calls of run_colmap / run_hloc in this run, with their keyword arguments
    log,           \* messages logged on CONSOLE in this run
    created,       \* paths whose directory this run created
    run,           \* ordinal of the current run (same arguments, same filesystem)
    setupDirs      \* per completed setup: the directories present after line 76

vars == <<self, dataKind, ffmpegOnPath, fs, pc, image_dir, err, errAt, extractCalls,
          subprocs, ffmpegStatus, calls, log, created, run, setupDirs>>

-----------------------------------------------------------------------------
(* Bounds *)

MaxRuns == 2

-----------------------------------------------------------------------------
(* Paths and file names *)

NoPath == <<>>

\* File names are sequences of characters, so that suffix and lower() are computed.
DataNames ==
    { <<"a", ".", "m", "p", "4">>,
      <<"b", ".", "M", "O", "V">>,
      <<"c", ".", "A", "v", "i">>,
      <<"d", ".", "m", "k", "v">>,
      <<"e", ".", "t", "x", "t">>,
      <<"i", "m", "g", "s">>,
      <<".", "m", "p", "4">>,
      <<"f", ".", "m", "p", "4", ".", "b">>,
      <<"g", ".", "m", "p", "4", ".">> }

Kinds == {"absent", "file", "dir"}

DefaultOutputDir == <<"colmap_output">>
DefaultFps == 2

ImagesOf(output_dir) == output_dir \o <<"images">>
SparseOf(output_dir) == output_dir \o <<"sparse">>
DatabaseOf(output_dir) == output_dir \o <<"database.db">>

OutPaths(output_dir) == {output_dir, ImagesOf(output_dir), SparseOf(output_dir)}

\* str.lower() on one character.
LowerChar(c) ==
    CASE c = "A" -> "a"
      [] c = "I" -> "i"
      [] c = "K" -> "k"
      [] c = "M" -> "m"
      [] c = "O" -> "o"
      [] c = "P" -> "p"
      [] c = "V" -> "v"
      [] OTHER -> c

lower(s) == [i \in 1..Len(s) |-> LowerChar(s[i])]

\* str.rfind("."), 1-based; 0 when there is no dot.
RFindDot(name) ==
    LET dots == {i \in 1..Len(name) : name[i] = "."}
    IN IF dots = {} THEN 0 ELSE CHOOSE i \in dots : \A j \in dots : j <= i

\* PurePath.suffix: the part of the final component from its last dot on,
\* empty when the dot is the first or the last character.
suffix(name) ==
    LET i == RFindDot(name)
    IN IF 1 < i /\ i < Len(name) THEN SubSeq(name, i, Len(name)) ELSE <<>>

VideoSuffixes ==
    { <<".", "m", "p", "4">>, <<".", "m", "o", "v">>,
      <<".", "a", "v", "i">>, <<".", "m", "k", "v">> }

\* Path.is_file()
is_file(kind) == kind = "file"

\* The condition of line 68 without the is_file() test.
IsVideoIgnoringKind(name, kind) == lower(suffix(name)) \in VideoSuffixes

\* The condition of line 68.
IsVideo(name, kind) == is_file(kind) /\ lower(suffix(name)) \in VideoSuffixes

-----------------------------------------------------------------------------
(* Library calls *)

\* Path.mkdir(parents=True, exist_ok=False): an existing entry of any kind raises.
mkdirNoExistOk(kind) ==
    CASE kind = "dir"  -> {"FileExistsError"}
      [] kind = "file" -> {"FileExistsError"}
      [] OTHER         -> {"ok", "OSError"}

\* Path.mkdir(parents=True, exist_ok=True): the possible outcomes for a target of
\* the given kind.  An existing directory is accepted, an existing non-directory
\* raises FileExistsError, and creating a missing directory succeeds or is
\* refused by the operating system (permissions, read-only or full filesystem,
\* a parent that is not a directory).
mkdir(kind) ==
    CASE kind = "dir"  -> {"ok"}
      [] kind = "file" -> {"FileExistsError"}
      [] OTHER         -> {"ok", "OSError"}

\* subprocess.run(cmd) without check=True: the exit status is ignored.
subprocessRunUnchecked(rc) == "none"

\* subprocess.run(cmd, check=True): the exception raised for exit status rc.
subprocessRun(rc) == IF rc # 0 THEN "CalledProcessError" ELSE "none"

\* process_data_utils.CAMERA_MODELS["perspective"]
\* The camera models are values of a module outside this file: opaque tokens.
CAMERA_MODELS == [perspective |-> "perspective_camera_model", fisheye |-> "fisheye_camera_model"]

-----------------------------------------------------------------------------
(* Configuration *)

SfmTools == {"colmap", "hloc", "glomap"}
MatchingMethods == {"exhaustive", "sequential", "vocab_tree"}
FeatureTypes == {"superpoint_aachen", "sift"}
MatcherTypes == {"superglue", "NN-ratio"}

SfMConverter ==
    [ data : DataNames,
      output_dir : {DefaultOutputDir},
      sfm_tool : SfmTools,
      matching_method : MatchingMethods,
      feature_type : FeatureTypes,
      matcher_type : MatcherTypes,
      fps : {DefaultFps},
      gpu : BOOLEAN,
      verbose : BOOLEAN ]

\* Filesystems in which the children of output_dir exist only inside a directory.
Filesystems(output_dir) ==
    { f \in [OutPaths(output_dir) -> Kinds] :
        f[output_dir] # "dir" =>
            /\ f[ImagesOf(output_dir)] = "absent"
            /\ f[SparseOf(output_dir)] = "absent" }

Dirs(f) == {p \in DOMAIN f : f[p] = "dir"}

-----------------------------------------------------------------------------
(* Initial state: a constructed SfMConverter, run() not yet entered *)

Init ==
    /\ self \in SfMConverter
    /\ dataKind \in Kinds
    /\ ffmpegOnPath \in BOOLEAN
    /\ fs \in Filesystems(self.output_dir)
    /\ pc = "mkdir_output"
    /\ image_dir = NoPath
    /\ err = "none"
    /\ errAt = "none"
    /\ extractCalls = 0
    /\ subprocs = <<>>
    /\ ffmpegStatus = "none"
    /\ calls = <<>>
    /\ log = <<>>
    /\ created = {}
    /\ run = 1
    /\ setupDirs = <<>>

env == <<self, dataKind, ffmpegOnPath, run>>

\* An exception leaves run(): nothing after the raising statement executes.
Raise(e) ==
    /\ err' = e
    /\ errAt' = pc
    /\ pc' = "error"

\* Path.mkdir(parents=True, exist_ok=True) on path p, continuing at next.
Mkdir(p, next) ==
    \E r \in mkdir(fs[p]) :
        IF r = "ok"
        THEN /\ fs' = [fs EXCEPT ![p] = "dir"]
             /\ created' = IF fs[p] = "dir" THEN created ELSE created \cup {p}
             /\ pc' = next
             /\ UNCHANGED <<err, errAt>>
        ELSE /\ Raise(r)
             /\ UNCHANGED <<fs, created>>

-----------------------------------------------------------------------------
(* SfMConverter.run, line 65: self.output_dir.mkdir(parents=True, exist_ok=True) *)

RunMkdirOutput ==
    /\ pc = "mkdir_output"
    /\ Mkdir(self.output_dir, "select_input")
    /\ UNCHANGED <<env, image_dir, extractCalls, subprocs, ffmpegStatus, calls, log, setupDirs>>

(* SfMConverter.run, lines 68-71: a video goes through _extract_frames, any *)
(* other input is taken as the image directory.                              *)

RunSelectInput ==
    /\ pc = "select_input"
    /\ IF IsVideo(self.data, dataKind)
       THEN /\ extractCalls' = extractCalls + 1
            /\ pc' = "which_ffmpeg"
            /\ UNCHANGED image_dir
       ELSE /\ image_dir' = self.data
            /\ pc' = "mkdir_sparse"
            /\ UNCHANGED extractCalls
    /\ UNCHANGED <<env, fs, err, errAt, subprocs, ffmpegStatus, calls, log, created, setupDirs>>

(* _extract_frames, lines 48-49: shutil.which("ffmpeg") *)

\* Lines 48-49 without the test: the lookup result is ignored.
ExtractWhichUnchecked ==
    /\ pc = "which_ffmpeg"
    /\ pc' = "mkdir_images"
    /\ UNCHANGED <<err, errAt>>
    /\ UNCHANGED <<env, fs, image_dir, extractCalls, subprocs, ffmpegStatus, calls, log, created, setupDirs>>

ExtractWhich ==
    /\ pc = "which_ffmpeg"
    /\ IF ffmpegOnPath
       THEN /\ pc' = "mkdir_images"
            /\ UNCHANGED <<err, errAt>>
       ELSE Raise("RuntimeError")
    /\ UNCHANGED <<env, fs, image_dir, extractCalls, subprocs, ffmpegStatus, calls, log, created, setupDirs>>

(* _extract_frames, lines 51-52: image_dir.mkdir(parents=True, exist_ok=True) *)

ExtractMkdirImages ==
    /\ pc = "mkdir_images"
    /\ Mkdir(ImagesOf(self.output_dir), "start_ffmpeg")
    /\ UNCHANGED <<env, image_dir, extractCalls, subprocs, ffmpegStatus, calls, log, setupDirs>>

\* The command of lines 54-59.
FfmpegCmd ==
    [ argv0 |-> "ffmpeg",
      i     |-> self.data,
      vf    |-> <<"fps=", self.fps>>,
      out   |-> ImagesOf(self.output_dir) \o <<"%04d.jpg">> ]

(* _extract_frames, lines 60-61: log the command, start the subprocess and block *)

ExtractStartFfmpeg ==
    /\ pc = "start_ffmpeg"
    /\ log' = Append(log, "extracting")
    /\ subprocs' = Append(subprocs, FfmpegCmd)
    /\ ffmpegStatus' = "running"
    /\ pc' = "wait_ffmpeg"
    /\ UNCHANGED <<env, fs, image_dir, err, errAt, extractCalls, calls, created, setupDirs>>

(* _extract_frames, lines 61-62 and run, line 69: the subprocess exits; with  *)
(* check=True a non-zero status raises, otherwise image_dir is returned.      *)

ExtractFfmpegExit ==
    /\ pc = "wait_ffmpeg"
    /\ \E rc \in {0, 1} :
         /\ ffmpegStatus' = IF rc = 0 THEN "ok" ELSE "failed"
         /\ IF subprocessRun(rc) = "none"
            THEN /\ image_dir' = ImagesOf(self.output_dir)
                 /\ pc' = "mkdir_sparse"
                 /\ UNCHANGED <<err, errAt>>
            ELSE /\ Raise(subprocessRun(rc))
                 /\ UNCHANGED image_dir
    /\ UNCHANGED <<env, fs, extractCalls, subprocs, calls, log, created, setupDirs>>

\* Lines 74-76 without the mkdir: the paths are computed and nothing is created.
RunSparsePathOnly ==
    /\ pc = "mkdir_sparse"
    /\ pc' = "dispatch"
    /\ setupDirs' = Append(setupDirs, Dirs(fs))
    /\ UNCHANGED <<env, fs, created, err, errAt, image_dir, extractCalls, subprocs,
                   ffmpegStatus, calls, log>>

(* SfMConverter.run, lines 74-76: sparse_dir.mkdir(parents=True, exist_ok=True) *)

RunMkdirSparse ==
    /\ pc = "mkdir_sparse"
    /\ Mkdir(SparseOf(self.output_dir), "dispatch")
    /\ setupDirs' = IF pc' = "dispatch" THEN Append(setupDirs, Dirs(fs')) ELSE setupDirs
    /\ UNCHANGED <<env, image_dir, extractCalls, subprocs, ffmpegStatus, calls, log>>

\* Keyword arguments of the call of lines 81-89.
ColmapArgs ==
    [ image_dir        |-> image_dir,
      colmap_dir       |-> self.output_dir,
      camera_model     |-> CAMERA_MODELS["perspective"],
      gpu              |-> self.gpu,
      verbose          |-> self.verbose,
      matching_method  |-> self.matching_method,
      refine_intrinsics |-> TRUE ]

\* The hloc call with matching_method left at its default.
HlocArgsDefaultMatching ==
    [ image_dir        |-> image_dir,
      colmap_dir       |-> self.output_dir,
      camera_model     |-> CAMERA_MODELS["perspective"],
      verbose          |-> self.verbose,
      matching_method  |-> "exhaustive",
      feature_type     |-> self.feature_type,
      matcher_type     |-> self.matcher_type ]

\* The hloc call given the input path whatever was extracted.
HlocArgsDataDir ==
    [ image_dir        |-> self.data,
      colmap_dir       |-> self.output_dir,
      camera_model     |-> CAMERA_MODELS["perspective"],
      verbose          |-> self.verbose,
      matching_method  |-> self.matching_method,
      feature_type     |-> self.feature_type,
      matcher_type     |-> self.matcher_type ]

\* Keyword arguments of the call of lines 92-100.
HlocArgs ==
    [ image_dir        |-> image_dir,
      colmap_dir       |-> self.output_dir,
      camera_model     |-> CAMERA_MODELS["perspective"],
      verbose          |-> self.verbose,
      matching_method  |-> self.matching_method,
      feature_type     |-> self.feature_type,
      matcher_type     |-> self.matcher_type ]

\* The branch of lines 79-102 with a final else that runs hloc.
SelectedPipelinesElseHloc(tool) ==
    IF tool = "colmap" THEN <<"run_colmap">> ELSE <<"run_hloc">>

\* The branch of lines 79-102 with two independent if statements.
SelectedPipelinesFallThrough(tool) ==
    IF tool = "colmap" THEN <<"run_colmap", "run_hloc">>
    ELSE IF tool = "hloc" THEN <<"run_hloc">>
    ELSE <<>>

\* The branch of lines 79-102: the pipeline entry points called for sfm_tool,
\* none when the else branch raises.
SelectedPipelines(tool) ==
    IF tool = "colmap" THEN <<"run_colmap">>
    ELSE IF tool = "hloc" THEN <<"run_hloc">>
    ELSE <<>>

Call(fn) == [fn |-> fn, args |-> IF fn = "run_colmap" THEN ColmapArgs ELSE HlocArgs]

(* SfMConverter.run, lines 79-102: log, then enter the pipeline, or raise *)

RunDispatch ==
    /\ pc = "dispatch"
    /\ LET fns == SelectedPipelines(self.sfm_tool)
       IN IF fns = <<>>
          THEN /\ Raise("RuntimeError")
               /\ UNCHANGED <<calls, log>>
          ELSE /\ calls' = calls \o [i \in 1..Len(fns) |-> Call(fns[i])]
               /\ log' = log \o [i \in 1..Len(fns) |-> fns[i]]
               /\ pc' = "in_pipeline"
               /\ UNCHANGED <<err, errAt>>
    /\ UNCHANGED <<env, fs, image_dir, extractCalls, subprocs, ffmpegStatus, created, setupDirs>>

(* SfMConverter.run, lines 81-106: the pipeline returns and the completion    *)
(* messages are logged, or its exception propagates.                          *)

RunPipelineReturn ==
    /\ pc = "in_pipeline"
    /\ \E ok \in BOOLEAN :
         IF ok
         THEN /\ log' = log \o <<"finished", DatabaseOf(self.output_dir),
                                 SparseOf(self.output_dir) \o <<"0">> >>
              /\ pc' = "done"
              /\ UNCHANGED <<err, errAt>>
         ELSE /\ Raise("PipelineError")
              /\ UNCHANGED log
    /\ UNCHANGED <<env, fs, image_dir, extractCalls, subprocs, ffmpegStatus, calls, created, setupDirs>>

(* entrypoint, lines 109-110: the command is run again with the same          *)
(* arguments on the filesystem the previous run left.                         *)

entrypoint ==
    /\ pc \in {"done", "error"}
    /\ run < MaxRuns
    /\ run' = run + 1
    /\ pc' = "mkdir_output"
    /\ image_dir' = NoPath
    /\ err' = "none"
    /\ errAt' = "none"
    /\ extractCalls' = 0
    /\ subprocs' = <<>>
    /\ ffmpegStatus' = "none"
    /\ calls' = <<>>
    /\ log' = <<>>
    /\ created' = {}
    /\ UNCHANGED <<self, dataKind, ffmpegOnPath, fs, setupDirs>>

Next ==
    \/ RunMkdirOutput
    \/ RunSelectInput
    \/ ExtractWhich
    \/ ExtractMkdirImages
    \/ ExtractStartFfmpeg
    \/ ExtractFfmpegExit
    \/ RunMkdirSparse
    \/ RunDispatch
    \/ RunPipelineReturn
    \/ entrypoint

Spec == Init /\ [][Next]_vars

-----------------------------------------------------------------------------
(* Vocabulary of the properties *)

Terminal == pc \in {"done", "error"}

OutputDir == self.output_dir
ImagesDir == ImagesOf(self.output_dir)
SparseDir == SparseOf(self.output_dir)

\* Two characters equal up to case.
SameCharIgnoringCase(a, b) == LowerChar(a) = LowerChar(b)

\* The input is an existing regular file whose suffix is, case-insensitively,
\* one of .mp4 .mov .avi .mkv (stated without the operators of line 68).
InputIsVideo ==
    /\ dataKind = "file"
    /\ \E v \in VideoSuffixes :
         LET sfx == suffix(self.data)
         IN /\ Len(sfx) = Len(v)
            /\ \A i \in 1..Len(v) : SameCharIgnoringCase(sfx[i], v[i])

FfmpegStarted == subprocs # <<>>
PipelineInvoked == calls # <<>>
FinishedLogged == \E i \in 1..Len(log) : log[i] = "finished"
UnknownTool == self.sfm_tool \notin {"colmap", "hloc"}
MkdirSites == {"mkdir_output", "mkdir_images", "mkdir_sparse"}
OutputDirFailed == pc = "error" /\ errAt = "mkdir_output"

\* The path a mkdir site works on.
SiteTarget(site) ==
    CASE site = "mkdir_output" -> OutputDir
      [] site = "mkdir_images" -> ImagesDir
      [] OTHER                 -> SparseDir

-----------------------------------------------------------------------------
(* C1 *)

\* C1 as stated: at the end of a run, ffmpeg has been invoked if and only if
\* the input is an existing regular file with a video suffix.
C1_ExtractionIffVideo ==
    Terminal => (FfmpegStarted <=> InputIsVideo)

\* C1 as amended: frame extraction is never invoked for an input that is not
\* a video file; for a video file _extract_frames is called exactly when the
\* creation of output_dir succeeded, and the ffmpeg subprocess is started
\* exactly when in addition ffmpeg is on PATH and output_dir/images could be
\* created.
C1_ExtractionRouting ==
    /\ ~InputIsVideo => (extractCalls = 0 /\ ~FfmpegStarted)
    /\ extractCalls <= 1 /\ Len(subprocs) <= 1
    /\ (pc \notin {"mkdir_output", "select_input"} /\ ~OutputDirFailed)
          => (extractCalls = 1 <=> InputIsVideo)
    /\ OutputDirFailed => extractCalls = 0
    /\ FfmpegStarted => (extractCalls = 1 /\ ffmpegOnPath /\ fs[ImagesDir] = "dir")
    /\ Terminal =>
          (FfmpegStarted <=>
              /\ InputIsVideo
              /\ ffmpegOnPath
              /\ ~(pc = "error" /\ errAt \in {"mkdir_output", "mkdir_images"}))

\* A finished run that extracted frames from a file with an upper-case suffix.
C1_Witness ==
    /\ pc = "done"
    /\ FfmpegStarted
    /\ InputIsVideo
    /\ suffix(self.data) \notin VideoSuffixes

-----------------------------------------------------------------------------
(* C2 *)

\* C2: a run whose sfm_tool is neither "colmap" nor "hloc" never invokes a
\* pipeline, never logs the completion message, never finishes normally, and
\* keeps stepping until it has ended in an error.
C2_UnknownToolRaises ==
    UnknownTool =>
        /\ ~PipelineInvoked
        /\ ~FinishedLogged
        /\ pc \notin {"in_pipeline", "done"}
        /\ (pc = "error" => err # "none")
        /\ (pc # "error" => ENABLED Next)

\* The unknown tool is rejected by the else branch of the dispatch.
C2_Witness ==
    /\ UnknownTool
    /\ pc = "error"
    /\ errAt = "dispatch"
    /\ err = "RuntimeError"

-----------------------------------------------------------------------------
(* C3 *)

\* C3: no mkdir of the run fails on a target that is already a directory, and
\* every run that completes its setup leaves the same set of directories as
\* the runs before it.
C3_IdempotentDirectories ==
    /\ (pc = "error" /\ errAt \in MkdirSites) => fs[SiteTarget(errAt)] # "dir"
    /\ \A i, j \in DOMAIN setupDirs : setupDirs[i] = setupDirs[j]

\* A second run on a video whose setup found all three directories in place.
C3_Witness ==
    /\ run = 2
    /\ Len(setupDirs) = 2
    /\ setupDirs[2] = {OutputDir, ImagesDir, SparseDir}
    /\ created = {}
    /\ pc = "dispatch"

-----------------------------------------------------------------------------
(* C4 *)

\* C4 as stated: with a video input and no ffmpeg on PATH the run ends with
\* RuntimeError, output_dir/images not created, no subprocess, no pipeline.
C4_MissingFfmpegRaisesRuntimeError ==
    (InputIsVideo /\ ~ffmpegOnPath /\ Terminal) =>
        /\ pc = "error"
        /\ err = "RuntimeError"
        /\ ImagesDir \notin created
        /\ ~FfmpegStarted
        /\ ~PipelineInvoked

\* C4 as amended: with a video input and no ffmpeg on PATH the run never
\* creates output_dir/images, starts no subprocess and invokes no pipeline;
\* it ends in an error, which is RuntimeError whenever the creation of
\* output_dir succeeded and otherwise the error of that mkdir.
C4_MissingFfmpegFailsFast ==
    (InputIsVideo /\ ~ffmpegOnPath) =>
        /\ ImagesDir \notin created
        /\ ~FfmpegStarted
        /\ ~PipelineInvoked
        /\ pc \notin {"mkdir_images", "start_ffmpeg", "wait_ffmpeg", "mkdir_sparse",
                      "dispatch", "in_pipeline", "done"}
        /\ (pc = "error" =>
              \/ errAt = "which_ffmpeg" /\ err = "RuntimeError" /\ fs[OutputDir] = "dir"
              \/ errAt = "mkdir_output" /\ err \in {"FileExistsError", "OSError"}
                    /\ fs[OutputDir] # "dir")

\* The lookup failed in a fresh output directory.
C4_Witness ==
    /\ InputIsVideo
    /\ ~ffmpegOnPath
    /\ pc = "error"
    /\ err = "RuntimeError"
    /\ OutputDir \in created
    /\ fs[ImagesDir] = "absent"

-----------------------------------------------------------------------------
(* C5 *)

\* C5: when the error for an unrecognized sfm_tool is raised, no external
\* tool has been invoked and the run has created none of output_dir,
\* output_dir/images, output_dir/sparse.
C5_UnknownToolFailsBeforeEffects ==
    (UnknownTool /\ pc = "error" /\ errAt = "dispatch") =>
        /\ ~FfmpegStarted
        /\ created = {}

-----------------------------------------------------------------------------
(* C6 *)

\* C6: a run invokes at most one pipeline call; once past the dispatch with a
\* recognized sfm_tool it has invoked exactly the pipeline the tool names, and
\* the dispatch raises only for an unrecognized tool.
C6_ExactlyOnePipeline ==
    /\ Len(calls) <= 1
    /\ (pc \in {"in_pipeline", "done"} \/ (pc = "error" /\ errAt = "in_pipeline"))
          => /\ Len(calls) = 1
             /\ self.sfm_tool = "colmap" => calls[1].fn = "run_colmap"
             /\ self.sfm_tool = "hloc" => calls[1].fn = "run_hloc"
             /\ ~UnknownTool
    /\ (pc = "error" /\ errAt = "dispatch") => UnknownTool
    /\ (pc = "dispatch" /\ ~UnknownTool) => (~PipelineInvoked /\ ENABLED RunDispatch)

\* A finished colmap run.
C6_Witness ==
    /\ pc = "done"
    /\ self.sfm_tool = "colmap"
    /\ Len(calls) = 1
    /\ calls[1].fn = "run_colmap"

-----------------------------------------------------------------------------
(* C7 *)

\* C7 as stated: when a pipeline has been invoked, output_dir,
\* output_dir/images and output_dir/sparse all exist as directories.
C7_LayoutCompleteAtPipeline ==
    PipelineInvoked =>
        /\ fs[OutputDir] = "dir"
        /\ fs[ImagesDir] = "dir"
        /\ fs[SparseDir] = "dir"

\* C7 as amended: when a pipeline has been invoked, output_dir and
\* output_dir/sparse exist; output_dir/images exists when the input was a
\* video, and for any other input this run has not created it.
C7_LayoutAtPipeline ==
    /\ PipelineInvoked =>
          /\ fs[OutputDir] = "dir"
          /\ fs[SparseDir] = "dir"
          /\ InputIsVideo => fs[ImagesDir] = "dir"
    /\ ~InputIsVideo => ImagesDir \notin created

\* A pipeline running on an image folder, with no output_dir/images.
C7_Witness ==
    /\ pc = "in_pipeline"
    /\ ~InputIsVideo
    /\ dataKind = "dir"
    /\ fs[ImagesDir] = "absent"
    /\ created = {OutputDir, SparseDir}

-----------------------------------------------------------------------------
(* C8 *)

\* The configured value of each pass-through keyword.
Configured ==
    [ camera_model    |-> CAMERA_MODELS["perspective"],
      gpu             |-> self.gpu,
      verbose         |-> self.verbose,
      matching_method |-> self.matching_method,
      feature_type    |-> self.feature_type,
      matcher_type    |-> self.matcher_type ]

ColmapKeys == {"camera_model", "gpu", "verbose", "matching_method"}
HlocKeys == {"camera_model", "verbose", "matching_method", "feature_type", "matcher_type"}

\* C8 as stated: every pipeline call is given the camera model, GPU flag,
\* verbosity, matching strategy, feature and matcher identifiers, each equal
\* to the configured value.
C8_AllConfigurationPassed ==
    \A i \in 1..Len(calls) :
        \A k \in DOMAIN Configured :
            /\ k \in DOMAIN calls[i].args
            /\ calls[i].args[k] = Configured[k]

\* C8 as amended: every configuration keyword a pipeline call is given equals
\* the configured value; run_colmap is given the camera model, GPU flag,
\* verbosity and matching strategy (no feature or matcher identifier), and
\* run_hloc the camera model, verbosity, matching strategy, feature and
\* matcher identifiers (no GPU flag).
C8_ConfigurationPassedUnchanged ==
    \A i \in 1..Len(calls) :
        LET given == DOMAIN calls[i].args \cap DOMAIN Configured
        IN /\ \A k \in given : calls[i].args[k] = Configured[k]
           /\ calls[i].fn = "run_colmap" => given = ColmapKeys
           /\ calls[i].fn = "run_hloc" => given = HlocKeys

\* An hloc call made under a non-default configuration.
C8_Witness ==
    /\ pc = "in_pipeline"
    /\ calls[1].fn = "run_hloc"
    /\ self.matching_method = "sequential"
    /\ self.feature_type = "sift"
    /\ self.matcher_type = "NN-ratio"
    /\ ~self.verbose

-----------------------------------------------------------------------------
(* C9 *)

\* C9: for a video input a pipeline is invoked only after ffmpeg has returned
\* successfully; while ffmpeg runs nothing else has happened; and when ffmpeg
\* fails the run has ended with ffmpeg's error, no pipeline invoked,
\* output_dir/sparse not created by the run, no completion message.
C9_PipelineAfterExtraction ==
    /\ (PipelineInvoked /\ InputIsVideo) => ffmpegStatus = "ok"
    /\ ffmpegStatus = "running" => (pc = "wait_ffmpeg" /\ ~PipelineInvoked)
    /\ ffmpegStatus = "failed" =>
          /\ pc = "error"
          /\ err = "CalledProcessError"
          /\ errAt = "wait_ffmpeg"
          /\ ~PipelineInvoked
          /\ SparseDir \notin created
          /\ ~FinishedLogged

\* ffmpeg failed in a fresh output directory.
C9_Witness ==
    /\ ffmpegStatus = "failed"
    /\ pc = "error"
    /\ InputIsVideo
    /\ created = {OutputDir, ImagesDir}

-----------------------------------------------------------------------------
(* C10 *)

====
